---- MODULE Spec2Model ----
(***************************************************************************)
(* Model of the UniPi Neuron integration's Evok connection manager         *)
(* (custom_components/unipi_neuron/__init__.py): the session cache, the    *)
(* full-state sync with its /rest/all fetch, the receive loop and the      *)
(* reconnecting supervisor task evok_connection; with them the unload of   *)
(* the entry (SpecTeardown), the light entities of light.py, which write   *)
(* the cache (SpecEntities), and the records of the client library's       *)
(* primary exchange (SpecSync).                                            *)
(*                                                                         *)
(* Encoding of Python values.  Every value is a function from strings:     *)
(*   - a scalar s (str, int, None) is the one-key function "$" :> s, the   *)
(*     text of the scalar ("1", "al_a", "" and "None" for None);           *)
(*   - a dict is the function from its keys to its values; a scalar that   *)
(*     stands where a dict is expected (a list element, the received data) *)
(*     is "$" :> scalar.                                                   *)
(* A dict never has the key "$", so IsDict tells the two apart the way     *)
(* hasattr(x, "get") does in the code.                                     *)
(***************************************************************************)
EXTENDS Integers, Sequences, FiniteSets, TLC

VARIABLES
    cache,          \* neuron._cache: (device, circuit) -> record
    ws,             \* the transport: "none", "open" or "closed"
    pc,             \* position of async_setup_entry, then of evok_connection
    first_run,      \* evok_connection's local first_run
    reconnect_time, \* entry.data["reconnect_time"], passed as reconnect_seconds
    data,           \* evok_connection's local data (last value received)
    sent,           \* dispatcher signals sent while handling the last receive
    trace,          \* the supervisor's steps since its last connect attempt
    registered,     \* hass.data[DOMAIN][entry.entry_id] is the session
    primary,        \* addresses the primary exchange of the sync in progress
                    \* answered with (empty once the sync is left behind)
    platforms,      \* the entity platforms of the entry are set up
    light_on,       \* UnipiLight._state of each light entity, by address
    brightness,     \* UnipiLight._brightness of each light entity
    light_calls,    \* the async_turn_on / async_turn_off calls in flight, in
                    \* the order they took or queued for their light's _lock
    last_sent,      \* per light, the value of the last evok_send issued
    light_result,   \* how the last finished call of a light ended
    cover_state,    \* UnipiCover._state
    relay_sent,     \* per relay of the cover, the last command sent to it
    cover_calls,    \* the cover's calls in flight, each at an evok_send
    entries,        \* the config entries of the domain, in creation order
    session_cache,  \* the cache of the session of each entry that is set up
    observers,      \* the entities subscribed to the dispatcher
    notified,       \* the observers the last dispatcher signal called
    ingested        \* the entry whose session sent that signal

vars == <<cache, ws, pc, first_run, reconnect_time, data, sent, trace,
          registered, primary, platforms, light_on, brightness,
          light_calls, last_sent, light_result, cover_state, relay_sent,
          cover_calls, entries, session_cache, observers, notified,
          ingested>>

\* the state of the connection manager of one session
coreVars == <<cache, ws, pc, first_run, reconnect_time, data, sent, trace,
              registered, primary>>

\* the state of the entity platforms
entityVars == <<platforms, light_on>>

\* the state of the calls on the light entities
callVars == <<brightness, light_calls, last_sent, light_result>>

\* the state of the cover entity
coverVars == <<cover_state, relay_sent, cover_calls>>

\* the config entries of the domain and their sessions
sessionVars == <<entries, session_cache, observers, notified, ingested>>

\* what the connection manager never touches
otherVars == <<callVars, coverVars, sessionVars>>

----------------------------------------------------------------------------
(* Bounds *)

MaxBatch == 2       \* longest list a receive returns
MaxRest == 2        \* longest /rest/all body
MaxPrimary == 2     \* longest response of the primary exchange
MaxCalls == 2       \* most light calls in flight
MaxCoverCalls == 2  \* most cover calls in flight
MaxEntries == 2     \* most config entries of the domain

(* Program constants *)

DefaultReconnectTime == 30

----------------------------------------------------------------------------
(* Python values *)

S(s) == "$" :> s

None == S("None")

NoneItem == "$" :> None

EmptyDict == [k \in {} |-> None]

IsDict(x) == "$" \notin DOMAIN x

IsScalar(v) == DOMAIN v = {"$"}

\* dict.get(k): the value, or None when the key is missing
Get(m, k) == IF k \in DOMAIN m THEN m[k] ELSE None

\* Python truthiness of a value (a scalar or a nested dict)
Truthy(v) == IF IsScalar(v) THEN v["$"] \notin {"None", "", "0"}
                            ELSE DOMAIN v # {}

\* Python truthiness of a list element / a non-list data (a dict or a scalar)
TruthyItem(x) == IF IsDict(x) THEN DOMAIN x # {} ELSE Truthy(x["$"])

----------------------------------------------------------------------------
(* The values the controller sends: a small universe of updates *)

Name == "UniPi"                     \* neuron.name of the session

\* the configured reconnect_time values: the default of async_setup_entry
ReconnectTimes == {DefaultReconnectTime}

Humidity40 == "humidity" :> "40"    \* a nested "value" sub-record

\* the fields of an update besides its address
Payloads ==
    { "value" :> S("0"),
      "value" :> S("1"),
      "value" :> S("1") @@ "alias" :> S("al_a"),
      "alias" :> S("al_a"),
      "value" :> Humidity40,
      "value" :> Humidity40 @@ "humidity" :> S("55") }

Update(dev, circuit, payload) ==
    "dev" :> S(dev) @@ "circuit" :> S(circuit) @@ payload

\* updates that carry both a device type and a circuit: every payload for
\* the first circuit, one for the second
WellFormed ==
    { Update("relay", "1_01", p) : p \in Payloads }
        \cup { Update("relay", "1_02", "value" :> S("1")) }

\* updates whose "dev" or "circuit" key is missing
NoDev == "circuit" :> S("1_01") @@ "value" :> S("1")
NoCircuit == "dev" :> S("relay") @@ "value" :> S("1")
NoAddress == "value" :> S("1")
Malformed == { NoDev, NoCircuit, NoAddress }

\* bare scalars: a truthy one and a falsy one
Scalars == { "$" :> S("5"), "$" :> S("") }

\* what a receive returns when it is not a list
Singles == WellFormed \cup Malformed \cup Scalars \cup { EmptyDict }

\* the elements of the lists a receive returns
BatchItems ==
    { Update("relay", "1_01", "value" :> S("0")),
      Update("relay", "1_01", "value" :> S("1") @@ "alias" :> S("al_a")),
      Update("relay", "1_02", "value" :> S("1")),
      NoDev,
      "$" :> S("5") }

SeqsUpTo(X, n) == UNION { [1..k -> X] : k \in 0..n }

\* a received value: a list (of updates) or a single value
ListData(l) == [isList |-> TRUE, list |-> l, single |-> EmptyDict]
SingleData(x) == [isList |-> FALSE, list |-> <<>>, single |-> x]

DataValues ==
    { ListData(l) : l \in SeqsUpTo(BatchItems, MaxBatch) }
        \cup { SingleData(x) : x \in Singles }

\* the device records of a /rest/all body
RestItems ==
    { Update("relay", "1_01", "value" :> S("0") @@ "alias" :> S("al_r")),
      Update("relay", "1_01", "value" :> S("1")),
      Update("relay", "1_02", "value" :> S("1") @@ "alias" :> S("al_r")),
      "dev" :> S("") @@ "circuit" :> S("1_02") @@ "value" :> S("1"),
      NoCircuit,
      "$" :> S("5") }

RestBodies == SeqsUpTo(RestItems, MaxRest)

----------------------------------------------------------------------------
(* The cache and the dispatcher *)

\* cache[(device, circuit)] = record
CacheSetOnly(c, device, circuit, record) ==
    LET key == <<device["$"], circuit["$"]>>
    IN  [k \in {key} |-> record]

CacheSetDefault(c, device, circuit, record) ==
    LET key == <<device["$"], circuit["$"]>>
    IN  [k \in DOMAIN c \cup {key} |-> IF k \in DOMAIN c THEN c[k] ELSE record]

CacheSet(c, device, circuit, record) ==
    LET key == <<device["$"], circuit["$"]>>
    IN  [k \in DOMAIN c \cup {key} |-> IF k = key THEN record ELSE c[k]]

\* evok_state_get: self.cache.get((device, circuit))
evok_state_get(c, device, circuit) ==
    LET key == <<device["$"], circuit["$"]>>
    IN  IF key \in DOMAIN c THEN c[key] ELSE NoneItem

\* evok_update_dispatch_send: the signal is keyed by controller name, device
\* and circuit and carries no payload; the subscribed entity's callback runs
\* at once and reads the cache c with evok_state_get, which is what it `sees'
evok_update_dispatch_send(c, dev_name, device, circuit) ==
    [signal |-> <<dev_name, device["$"], circuit["$"]>>,
     sees   |-> evok_state_get(c, device, circuit)]

\* the receive loop's test for an update without an address
IsMalformedDevOnly(device, circuit) == device = None

IsMalformed(device, circuit) == None \in {device, circuit}

\* the two statements that handle one addressed update: the cache write, then
\* the dispatch
StoreAfterDispatch(c, message, device, circuit) ==
    [cache |-> CacheSet(c, device, circuit, message),
     note  |-> evok_update_dispatch_send(c, Name, device, circuit)]

StoreAndDispatch(c, message, device, circuit) ==
    LET c2 == CacheSet(c, device, circuit, message)
    IN  [cache |-> c2,
         note  |-> evok_update_dispatch_send(c2, Name, device, circuit)]

\* the for loop over the messages of one receive.  A message that is no dict
\* has no .get: the AttributeError ends the loop with what was done so far.
RECURSIVE HandleMessages(_, _, _)

\* handling of a message raised, with the messages rest still to come: the
\* exception leaves the for loop
RaisedAtSkipped(rest, c, notes) == HandleMessages(rest, c, notes)

RaisedAt(rest, c, notes) == [cache |-> c, sent |-> notes, raised |-> TRUE]

HandleMessages(messages, c, notes) ==
    IF messages = <<>> THEN [cache |-> c, sent |-> notes, raised |-> FALSE]
    ELSE LET message == Head(messages) IN
         IF ~IsDict(message)
         THEN RaisedAt(Tail(messages), c, notes)
         ELSE LET device == Get(message, "dev")
                  circuit == Get(message, "circuit")
              IN  IF IsMalformed(device, circuit)
                  THEN HandleMessages(Tail(messages), c, notes)
                  ELSE IF ~(IsScalar(device) /\ IsScalar(circuit))
                  THEN RaisedAt(Tail(messages), c, notes)
                  ELSE LET r == StoreAndDispatch(c, message, device, circuit)
                       IN  HandleMessages(Tail(messages), r.cache,
                                          Append(notes, r.note))

\* messages = data if isinstance(data, list) else [data]
MessagesUnwrapped(d) ==
    IF d.isList THEN << "$" :> S("list") >> ELSE <<d.single>>

Messages(d) == IF d.isList THEN d.list ELSE <<d.single>>

\* not data
Falsy(d) == IF d.isList THEN d.list = <<>> ELSE ~TruthyItem(d.single)

\* fetch_rest_all's loop over the body: an entry with a truthy "dev" and a
\* "circuit" that is not None replaces the cache entry of its address
RECURSIVE StoreRest(_, _)
StoreRest(body, c) ==
    IF body = <<>> THEN [cache |-> c, raised |-> FALSE]
    ELSE LET dev_info == Head(body) IN
         IF ~IsDict(dev_info)
         THEN [cache |-> c, raised |-> TRUE]
         ELSE LET device_type == Get(dev_info, "dev")
                  circuit == Get(dev_info, "circuit")
              IN  IF Truthy(device_type) /\ circuit # None
                  THEN StoreRest(Tail(body),
                                 CacheSet(c, device_type, circuit, dev_info))
                  ELSE StoreRest(Tail(body), c)

\* what the GET of /rest/all gives: an exception (timeout, network, no JSON)
\* or a parsed body
RestResponses ==
    { [ok |-> FALSE, body |-> <<>>] }
        \cup { [ok |-> TRUE, body |-> b] : b \in RestBodies }

\* fetch_rest_all: a failed GET is logged and skipped
fetch_rest_all_clearing(c, resp) ==
    IF ~resp.ok THEN [cache |-> [k \in {} |-> EmptyDict], raised |-> FALSE]
                ELSE StoreRest(resp.body, c)

fetch_rest_all(c, resp) ==
    IF ~resp.ok THEN [cache |-> c, raised |-> FALSE]
                ELSE StoreRest(resp.body, c)

----------------------------------------------------------------------------
(* The supervisor's steps since its last connect attempt, as a mock of the *)
(* transport and of asyncio.sleep would record them                        *)

T(op) == [op |-> op, arg |-> 0]

Slept(seconds) == [op |-> "sleep", arg |-> seconds]

Ops(tr) == { tr[i].op : i \in DOMAIN tr }

----------------------------------------------------------------------------
(* light.py: the on/off lights created for the relays and outputs in cache *)

LIGHT_DEVICES == {"relay", "led", "ro", "do"}

\* _update_callback: _state = bool(raw_value), raw_value being the "value"
\* of the record evok_state_get returns (0 when the record has none)
LightState(raw_state) ==
    IF IsDict(raw_state)
    THEN "value" \in DOMAIN raw_state /\ Truthy(raw_state["value"])
    ELSE Truthy(raw_state["$"])

\* the callbacks the signals of one receive run, in order: each light
\* subscribed to a signal's address reads the cache as the signal `sees' it
RECURSIVE UpdateCallbacks(_, _)
UpdateCallbacks(on, notes) ==
    IF notes = <<>> THEN on
    ELSE LET note == Head(notes)
             key == <<note.signal[2], note.signal[3]>>
         IN  UpdateCallbacks([k \in DOMAIN on |->
                                 IF k = key THEN LightState(note.sees)
                                            ELSE on[k]],
                             Tail(notes))

\* the record async_turn_on / async_turn_off write after the send
LightRecord(on) == "value" :> S(IF on THEN "1" ELSE "0")

----------------------------------------------------------------------------
(* async_setup_entry *)

NoData == SingleData(NoneItem)

Init ==
    /\ cache = [k \in {} |-> EmptyDict]
    /\ ws = "none"
    /\ pc = "setup_connect"
    /\ first_run = FALSE
    /\ reconnect_time \in ReconnectTimes
    /\ data = NoData
    /\ sent = <<>>
    /\ trace = <<>>
    /\ registered = FALSE
    /\ primary = {}
    /\ platforms = FALSE
    /\ light_on = [k \in {} |-> FALSE]
    /\ brightness = [k \in {} |-> "None"]
    /\ light_calls = <<>>
    /\ last_sent = [k \in {} |-> "none"]
    /\ light_result = "none"
    /\ cover_state = "idle"
    /\ relay_sent = [port \in {"1_01", "1_02"} |-> "none"]
    /\ cover_calls = <<>>
    /\ entries = <<>>
    /\ session_cache = [i \in {} |-> <<>>]
    /\ observers = {}
    /\ notified = {}
    /\ ingested = 0

\* the try block of async_setup_entry: a step that fails (a connect that
\* returns False, a sync that raises) is raised as ConfigEntryNotReady, and
\* the lines after the try block (register the session, create the
\* supervisor task, forward to the platforms) are not reached
AfterSetupStepUnchecked(ok, next) == next

AfterSetupStep(ok, next) == IF ok THEN next ELSE "not_ready"

\* connected = await neuron.evok_connect(); not connected is not ready
SetupConnect ==
    /\ pc = "setup_connect"
    /\ \E connected \in BOOLEAN :
          /\ ws' = IF connected THEN "open" ELSE ws
          /\ pc' = AfterSetupStep(connected, "setup_sync")
          /\ trace' = IF connected THEN trace
                      ELSE Append(trace, T("not_connected"))
    /\ UNCHANGED <<cache, first_run, reconnect_time, otherVars, data, sent>>
    /\ UNCHANGED <<registered, primary, entityVars>>

\* await neuron.evok_full_state_sync(): the primary exchange of the client
\* library, which may raise
SetupSyncPrimary ==
    /\ pc = "setup_sync"
    /\ \E ok \in BOOLEAN :
          /\ pc' = AfterSetupStep(ok, "setup_rest")
          /\ trace' = IF ok THEN trace ELSE Append(trace, T("sync_raised"))
    /\ UNCHANGED <<cache, ws, first_run, reconnect_time, otherVars, data, sent>>
    /\ UNCHANGED <<registered, primary, entityVars>>

\* ... then fetch_rest_all; after it the session is registered and the
\* supervisor task is created with initial_connected=True
SetupSyncRest ==
    /\ pc = "setup_rest"
    /\ \E resp \in RestResponses :
          LET r == fetch_rest_all(cache, resp) IN
          /\ cache' = r.cache
          /\ pc' = AfterSetupStep(~r.raised, "loop")
          /\ trace' = IF r.raised THEN Append(trace, T("sync_raised"))
                      ELSE trace
          /\ first_run' = (pc' = "loop")
          /\ registered' = (pc' = "loop")
    /\ UNCHANGED <<ws, reconnect_time, otherVars, data, sent, primary, entityVars>>

----------------------------------------------------------------------------
(* evok_connection: the supervisor task *)

\* top of the while loop: close the transport unless this is the first run.
\* The data of the receive that ended the inner loop, and its signals, are
\* not read again (line 91 assigns data before every use): they are
\* forgotten here.
LoopTop ==
    /\ pc = "loop"
    /\ IF first_run
       THEN UNCHANGED <<ws, trace>>
       ELSE /\ ws' = "closed"
            /\ trace' = Append(trace, T("close"))
    /\ first_run' = FALSE
    /\ pc' = "connect"
    /\ primary' = {}
    /\ data' = NoData
    /\ sent' = <<>>
    /\ UNCHANGED <<cache, reconnect_time, otherVars>>
    /\ UNCHANGED <<registered, entityVars>>

\* where the supervisor goes after evok_connect: to the sleep when it
\* returned False, else to the full-state sync, which it awaits before the
\* receive loop
AfterConnectNoSync(connected) == IF connected THEN "receive" ELSE "sleep"

AfterConnect(connected) == IF connected THEN "sync" ELSE "sleep"

\* if not await neuron.evok_connect(): warn, then sleep
Connect ==
    /\ pc = "connect"
    /\ \E connected \in BOOLEAN :
          /\ ws' = IF connected THEN "open" ELSE ws
          /\ trace' = << T(IF connected THEN "connect_ok" ELSE "connect_fail") >>
          /\ pc' = AfterConnect(connected)
    /\ UNCHANGED <<cache, first_run, reconnect_time, otherVars, data, sent>>
    /\ UNCHANGED <<registered, primary, entityVars>>

\* await asyncio.sleep(reconnect_seconds); continue
Sleep ==
    /\ pc = "sleep"
    /\ trace' = Append(trace, Slept(reconnect_time))
    /\ pc' = "loop"
    /\ UNCHANGED <<cache, ws, first_run, reconnect_time, otherVars, data, sent>>
    /\ UNCHANGED <<registered, primary, entityVars>>

\* await neuron.evok_full_state_sync(): the primary exchange; nothing in the
\* supervisor catches what it raises, so the task ends
SyncPrimary ==
    /\ pc = "sync"
    /\ \E ok \in BOOLEAN : pc' = IF ok THEN "rest" ELSE "dead"
    /\ UNCHANGED <<cache, ws, first_run, reconnect_time, otherVars, data, sent, trace>>
    /\ UNCHANGED <<registered, primary, entityVars>>

\* ... then fetch_rest_all, and on to the receive loop
SyncRest ==
    /\ pc = "rest"
    /\ \E resp \in RestResponses :
          LET r == fetch_rest_all(cache, resp) IN
          /\ cache' = r.cache
          /\ pc' = IF r.raised THEN "dead" ELSE "receive"
          /\ trace' = IF r.raised THEN trace ELSE Append(trace, T("streaming"))
    /\ UNCHANGED <<ws, first_run, reconnect_time, otherVars, data, sent>>
    /\ UNCHANGED <<registered, primary, entityVars>>

\* where the supervisor goes when the body of the receive loop ends with
\* outcome "ok" (loop again), "falsy" (not data), "closed"
\* (ConnectionClosedError) or "error" (any other Exception): all but "ok"
\* break out to the top of the outer loop
AfterReceiveUncaught(outcome) ==
    CASE outcome = "ok" -> "receive"
      [] outcome = "error" -> "dead"
      [] OTHER -> "loop"

AfterReceive(outcome) ==
    IF outcome = "ok" THEN "receive" ELSE "loop"

\* data = await neuron.evok_receive() raises
ReceiveRaises ==
    /\ pc = "receive"
    /\ \E outcome \in {"closed", "error"} :
          /\ pc' = AfterReceive(outcome)
          /\ trace' = Append(trace, T(IF outcome = "closed" THEN "closed"
                                                             ELSE "recv_error"))
    /\ sent' = <<>>
    /\ primary' = {}
    /\ UNCHANGED <<cache, ws, first_run, reconnect_time, otherVars, data>>
    /\ UNCHANGED <<registered, entityVars>>

\* data = await neuron.evok_receive() returns on an open transport: handle
\* its messages; the callbacks of the subscribed entities run in the dispatch
Receive ==
    /\ pc = "receive"
    /\ ws = "open"
    /\ \E d \in DataValues :
          LET r == HandleMessages(Messages(d), cache, <<>>)
              outcome == IF r.raised THEN "error"
                         ELSE IF Falsy(d) THEN "falsy" ELSE "ok"
          IN  /\ data' = d
              /\ cache' = r.cache
              /\ sent' = r.sent
              /\ pc' = AfterReceive(outcome)
              /\ trace' = IF outcome = "ok" THEN trace
                          ELSE Append(trace, T(outcome))
              /\ light_on' = UpdateCallbacks(light_on, r.sent)
    /\ primary' = {}
    /\ UNCHANGED <<ws, first_run, reconnect_time, otherVars>>
    /\ UNCHANGED <<registered, platforms>>

Next ==
    \/ SetupConnect
    \/ SetupSyncPrimary
    \/ SetupSyncRest
    \/ LoopTop
    \/ Connect
    \/ Sleep
    \/ SyncPrimary
    \/ SyncRest
    \/ ReceiveRaises
    \/ Receive

Spec == Init /\ [][Next]_vars

----------------------------------------------------------------------------
(* async_unload_entry *)

\* pop the session from hass.data, close its transport, unload the
\* platforms; the supervisor task is neither told nor cancelled
async_unload_entry ==
    /\ registered
    /\ registered' = FALSE
    /\ ws' = "closed"
    /\ platforms' = FALSE
    /\ light_on' = [k \in {} |-> FALSE]
    /\ UNCHANGED <<cache, pc, first_run, reconnect_time, otherVars, data, sent, trace,
                   primary>>

NextTeardown == Next \/ async_unload_entry

\* the connection manager with the unload of the entry
SpecTeardown == Init /\ [][NextTeardown]_vars

----------------------------------------------------------------------------
(* The light platform *)

\* async_forward_entry_setups, light.async_setup_entry: one UnipiLight per
\* cached address of a light device; async_added_to_hass subscribes it and
\* runs _update_callback once
SetupPlatforms ==
    /\ registered
    /\ ~platforms
    /\ platforms' = TRUE
    /\ light_on' = [k \in { a \in DOMAIN cache : a[1] \in LIGHT_DEVICES } |->
                       LightState(evok_state_get(cache, S(k[1]), S(k[2])))]
    /\ brightness' = [k \in DOMAIN light_on' |-> "None"]
    /\ light_calls' = <<>>
    /\ last_sent' = [k \in DOMAIN light_on' |-> "none"]
    /\ UNCHANGED <<cache, ws, pc, first_run, reconnect_time, data, sent,
                   trace, registered, primary, light_result, coverVars,
                   sessionVars>>

\* async_turn_on / async_turn_off of the light at key: evok_send, then the
\* cache write and _state; a ConnectionClosedError of the send is logged
\* and nothing is written.  The step is the command's completion, for a
\* call that no other call on the light overlaps; the calls are taken step
\* by step, with the lock, in SpecLight.
LightTurn(key, on) ==
    /\ \E sent_ok \in BOOLEAN :
          IF sent_ok /\ ws = "open"
          THEN /\ cache' = CacheSet(cache, S(key[1]), S(key[2]),
                                    LightRecord(on))
               /\ light_on' = [light_on EXCEPT ![key] = on]
          ELSE UNCHANGED <<cache, light_on>>
    /\ UNCHANGED <<ws, pc, first_run, reconnect_time, otherVars, data, sent, trace,
                   registered, primary, platforms>>

async_turn_on == \E key \in DOMAIN light_on : LightTurn(key, TRUE)

async_turn_off == \E key \in DOMAIN light_on : LightTurn(key, FALSE)

NextEntities == Next \/ SetupPlatforms \/ async_turn_on \/ async_turn_off

\* the connection manager with the light entities of the entry
SpecEntities == Init /\ [][NextEntities]_vars

----------------------------------------------------------------------------
(* The calls on a light, step by step *)

\* the value async_turn_on / async_turn_off send
SendValue(on) == IF on THEN "1" ELSE "0"

\* what evok_send can do: return (on an open transport only), raise
\* ConnectionClosedError, or raise something else
SendOutcomes == {"ok", "closed", "raised"}

\* async with self._lock: asyncio.Lock is taken at once when it is free and
\* nobody waits for it, that is when no call on the light is in flight
LockNeverWaits(calls) == TRUE
LockFree(calls) == calls = <<>>

\* the rest of a call once its evok_send has ended: on a return the cache
\* entry and _state are written; a ConnectionClosedError is logged and
\* swallowed; any other exception leaves the call
AfterSendOptimistic(c, lights, key, on, outcome) ==
    [cache |-> CacheSet(c, S(key[1]), S(key[2]), LightRecord(on)),
     light_on |-> [lights EXCEPT ![key] = on],
     result |-> CASE outcome = "ok" -> "returned"
                  [] outcome = "closed" -> "warned"
                  [] OTHER -> "raised"]
AfterSend(c, lights, key, on, outcome) ==
    IF outcome = "ok"
    THEN [cache |-> CacheSet(c, S(key[1]), S(key[2]), LightRecord(on)),
          light_on |-> [lights EXCEPT ![key] = on],
          result |-> "returned"]
    ELSE [cache |-> c, light_on |-> lights,
          result |-> IF outcome = "closed" THEN "warned" ELSE "raised"]

\* the calls in flight on the light at key, in the order they came
CallsOn(calls, key) == SelectSeq(calls, LAMBDA c : c.key = key)

\* a call of async_turn_on (on) or async_turn_off starts: with the lock it
\* goes on to its evok_send, which is issued; without it the call queues
LightCallStarts(key, on) ==
    /\ platforms
    /\ Len(light_calls) < MaxCalls
    /\ LET gets == LockFree(CallsOn(light_calls, key)) IN
          /\ light_calls' = Append(light_calls,
                 [key |-> key, on |-> on,
                  at |-> IF gets THEN "send" ELSE "lock"])
          /\ last_sent' = IF gets
                          THEN [last_sent EXCEPT ![key] = SendValue(on)]
                          ELSE last_sent
    /\ UNCHANGED <<coreVars, entityVars, brightness, light_result,
                   coverVars, sessionVars>>

async_turn_on_starts == \E key \in DOMAIN light_on : LightCallStarts(key, TRUE)

async_turn_off_starts == \E key \in DOMAIN light_on : LightCallStarts(key, FALSE)

\* the first waiter gets the released lock and issues its evok_send
LightLockAcquired ==
    \E i \in DOMAIN light_calls :
       LET key == light_calls[i].key IN
       /\ \A j \in DOMAIN light_calls :
             light_calls[j].key = key => light_calls[j].at = "lock" /\ i <= j
       /\ light_calls' = [light_calls EXCEPT ![i].at = "send"]
       /\ last_sent' = [last_sent EXCEPT ![key] = SendValue(light_calls[i].on)]
       /\ UNCHANGED <<coreVars, entityVars, brightness, light_result,
                      coverVars, sessionVars>>

\* the evok_send of a call ends and the call runs to its end, releasing
\* the lock
LightSendEnds ==
    \E i \in DOMAIN light_calls :
       \E outcome \in SendOutcomes :
          LET call == light_calls[i]
              r == AfterSend(cache, light_on, call.key, call.on, outcome)
          IN  /\ call.at = "send"
              /\ outcome = "ok" => ws = "open"
              /\ cache' = r.cache
              /\ light_on' = r.light_on
              /\ light_result' = r.result
              /\ light_calls' = SubSeq(light_calls, 1, i - 1)
                                   \o SubSeq(light_calls, i + 1, Len(light_calls))
              /\ UNCHANGED <<ws, pc, first_run, reconnect_time, data, sent,
                             trace, registered, primary, platforms,
                             brightness, last_sent, coverVars, sessionVars>>

\* the steps of a session whose controller is slow to answer the
\* supervisor's state request: once it has (re)connected the supervisor
\* waits in evok_full_state_sync, while the lights are being switched
NextLight ==
    \/ SetupConnect
    \/ SetupSyncPrimary
    \/ SetupSyncRest
    \/ LoopTop
    \/ Connect
    \/ Sleep
    \/ SetupPlatforms
    \/ async_turn_on_starts
    \/ async_turn_off_starts
    \/ LightLockAcquired
    \/ LightSendEnds

\* the light entities and their calls beside the connecting supervisor
SpecLight == Init /\ [][NextLight]_vars

----------------------------------------------------------------------------
(* Vocabulary of the properties *)

\* the messages of a receive that the for loop gets to: those before the
\* first one that is no dict
Handled(ms) ==
    LET bad == { i \in DOMAIN ms : ~IsDict(ms[i]) }
        stop == IF bad = {} THEN Len(ms) + 1
                ELSE CHOOSE i \in bad : \A j \in bad : i <= j
    IN  SubSeq(ms, 1, stop - 1)

HasAddress(m) == "dev" \in DOMAIN m /\ "circuit" \in DOMAIN m

AddressOf(m) == <<m["dev"]["$"], m["circuit"]["$"]>>

\* the updates of a receive that carry an address, in message order
Addressed(ms) == SelectSeq(Handled(ms), HasAddress)

\* a step that handles a returned receive
IsReceiveStep ==
    /\ pc = "receive"
    /\ \/ trace' = trace
       \/ trace'[Len(trace')].op \in {"error", "falsy"}

\* a step of fetch_rest_all
IsRestStep == pc \in {"setup_rest", "rest"}

\* the receive loop has ended since the last connect attempt
LoopEnds == {"closed", "recv_error", "error", "falsy"}
LoopEnded == Ops(trace) \cap LoopEnds # {}

\* the record the specification's merge gives: the union of the keys, the
\* later update winning
RECURSIVE UnionLastWins(_, _, _)
UnionLastWins(ms, key, rec) ==
    IF ms = <<>> THEN rec
    ELSE UnionLastWins(Tail(ms), key,
                       IF AddressOf(Head(ms)) = key THEN Head(ms) @@ rec
                                                    ELSE rec)

----------------------------------------------------------------------------
(* Properties of the cache writes *)

\* C1: when a receive delivers a sequence of structured updates and an
\* address had no record before, the record cached for it afterwards is the
\* union of the keys of the updates to that address, each key with the value
\* of the last update that has it.
C1_UnionLastWriteWins ==
    [][ IsReceiveStep =>
          LET ms == Messages(data') IN
          (\A i \in DOMAIN ms : IsDict(ms[i]) /\ HasAddress(ms[i])) =>
             \A key \in DOMAIN cache' \ DOMAIN cache :
                cache'[key] = UnionLastWins(ms, key, EmptyDict) ]_vars

\* C2: fetch_rest_all deletes no field of a record that is already cached:
\* every field of the record before the fetch is a field of it afterwards.
C2_RestKeepsFields ==
    [][ IsRestStep =>
          \A key \in DOMAIN cache : DOMAIN cache[key] \subseteq DOMAIN cache'[key]
      ]_vars

\* records that only fetch_rest_all writes: those with the alias "al_r", which
\* no streamed update carries
SyncedRecords == { r \in RestItems : IsDict(r) /\ Get(r, "alias") = S("al_r") }

\* an update that only carries its address and a scalar "value"
IsValueUpdate(m) ==
    /\ IsDict(m)
    /\ DOMAIN m = {"dev", "circuit", "value"}
    /\ IsScalar(m["value"])

\* C3: after a full-state sync has cached a record with an alias for an
\* address, a streamed update that changes the "value" of that address makes
\* evok_state_get return the new value with every other field of the synced
\* record present and unchanged.
C3_SyncedFieldsSurviveUpdate ==
    [][ IsReceiveStep /\ ~data'.isList /\ IsValueUpdate(data'.single) =>
          LET m == data'.single
              key == AddressOf(m)
              got == evok_state_get(cache', m["dev"], m["circuit"])
          IN  (key \in DOMAIN cache /\ cache[key] \in SyncedRecords) =>
                 /\ Get(got, "value") = m["value"]
                 /\ \A f \in DOMAIN cache[key] \ {"value"} :
                       f \in DOMAIN got /\ got[f] = cache[key][f] ]_vars

\* C4: a received bare scalar (a payload that is no record) leaves a cached
\* record whose "value" is that scalar: a new record when the address had
\* none, and otherwise the old record with every other field kept.
C4_BareScalarSetsValue ==
    [][ IsReceiveStep /\ ~data'.isList /\ ~IsDict(data'.single) =>
          \E key \in DOMAIN cache' :
             /\ Get(cache'[key], "value") = data'.single["$"]
             /\ key \in DOMAIN cache =>
                   \A f \in DOMAIN cache[key] \ {"value"} :
                      /\ f \in DOMAIN cache'[key]
                      /\ cache'[key][f] = cache[key][f] ]_vars

\* C5: the fields of a nested "value" sub-record become fields of the cached
\* record, a field that the update also has at top level taking the
\* top-level value.
C5_NestedValueMerged ==
    [][ IsReceiveStep /\ ~data'.isList /\ IsDict(data'.single)
           /\ HasAddress(data'.single)
           /\ ~IsScalar(Get(data'.single, "value")) =>
          LET m == data'.single
              sub == m["value"]
              rec == cache'[AddressOf(m)]
          IN  \A f \in DOMAIN sub :
                 /\ f \in DOMAIN rec
                 /\ rec[f] = IF f \in DOMAIN m THEN m[f] ELSE S(sub[f]) ]_vars

----------------------------------------------------------------------------
(* Properties of the receive loop *)

\* the signal of an addressed update
SignalOf(m) == <<Name>> \o AddressOf(m)

\* C6: an update without a device type or without a circuit changes no cache
\* entry and sends no signal, and the updates after it in the same message
\* are still handled: the entries that change and the signals sent are those
\* of the addressed updates of the message, one signal each, in order.
C6_MalformedUpdatesSkipped ==
    [][ IsReceiveStep =>
          LET good == Addressed(Messages(data')) IN
          /\ \A key \in DOMAIN cache' :
                (key \notin DOMAIN cache \/ cache'[key] # cache[key]) =>
                   \E i \in DOMAIN good : AddressOf(good[i]) = key
          /\ Len(sent') = Len(good)
          /\ \A i \in DOMAIN good :
                /\ sent'[i].signal = SignalOf(good[i])
                /\ AddressOf(good[i]) \in DOMAIN cache' ]_vars

\* C6 witness: a list whose first update has no device type and whose second
\* is addressed has been handled: one signal, and the second update cached.
C6_Witness ==
    /\ pc = "receive"
    /\ data.isList
    /\ Len(data.list) = 2
    /\ data.list[1] = NoDev
    /\ IsDict(data.list[2]) /\ HasAddress(data.list[2])
    /\ Len(sent) = 1
    /\ cache[AddressOf(data.list[2])] = data.list[2]

\* C7: the signal of an update is sent after the cache write of that update:
\* the entity that reads the cache on the signal sees the record of that very
\* update (sent holds the signals of the last handled receive, data).
C7_SignalAfterWrite ==
    LET good == Addressed(Messages(data)) IN
    \A i \in DOMAIN sent :
       /\ i \in DOMAIN good
       /\ sent[i].signal = SignalOf(good[i])
       /\ sent[i].sees = good[i]

\* C7 witness: two updates of one message to the same address, each seen by
\* the entity at its own signal.
C7_Witness ==
    /\ Len(sent) = 2
    /\ sent[1].signal = sent[2].signal
    /\ sent[1].sees # sent[2].sees
    /\ cache[<<sent[2].signal[2], sent[2].signal[3]>>] = sent[2].sees

----------------------------------------------------------------------------
(* Properties of the supervisor *)

\* the number of steps op in a trace
Count(tr, op) == Cardinality({ i \in DOMAIN tr : tr[i].op = op })

\* the supervisor is past the sync of its last connect attempt
PastSync == pc \in {"receive", "loop", "connect", "dead"}

\* between a failed connect attempt and the next one the supervisor sleeps
\* once, for the configured interval, and then closes the transport
C8_OneSleepPerFailedConnect ==
    (pc = "connect" /\ trace # <<>> /\ trace[1].op = "connect_fail") =>
        trace = << T("connect_fail"), Slept(reconnect_time), T("close") >>

\* C8: each failed connect attempt is followed by exactly one sleep of the
\* configured interval before the next attempt, and each successful one by a
\* full-state sync and exactly one entry into the receive loop.
C8_SleepPerFailureStreamPerSuccess ==
    /\ C8_OneSleepPerFailedConnect
    /\ (PastSync /\ trace # <<>> /\ trace[1].op = "connect_ok") =>
          Count(trace, "streaming") = 1

\* C9: when the receive loop has ended, the supervisor sleeps the configured
\* interval before its next connect attempt.
C9_SleepAfterLoopEnd ==
    (pc = "connect" /\ LoopEnded) =>
        \E i \in DOMAIN trace : trace[i] = Slept(reconnect_time)

\* C10: when the receive loop ends on a closed connection, a falsy receive or
\* an unexpected error, nothing is raised out of the supervisor: it goes to
\* the top of its loop, closes the transport and is then at a new connect
\* attempt.
C10_LoopEndReconnects ==
    LoopEnded =>
        /\ pc \in {"loop", "connect"}
        /\ pc = "connect" =>
              /\ ws = "closed"
              /\ trace[Len(trace)] = T("close")

\* C10 witness: the handling of a received message raised with an update
\* in the cache, and the supervisor has closed the transport and stands at
\* its next connect attempt.
C10_Witness ==
    /\ pc = "connect"
    /\ "error" \in Ops(trace)
    /\ DOMAIN cache # {}
    /\ ws = "closed"

----------------------------------------------------------------------------
(* The supervisor task's lifetime *)

\* the positions of a supervisor task that is running
SupervisorPcs == {"loop", "connect", "sleep", "sync", "rest", "receive"}

TaskRunning == pc \in SupervisorPcs

\* C11: when the primary exchange of the sync fails in the supervisor, after
\* a successful connect, the supervisor does not stop and does not stream:
\* it tears the transport down and goes on to sleep the reconnect interval
\* before it retries.
C11_PrimaryFailureRetries ==
    [][pc = "sync" /\ pc' \notin {"sync", "rest"}
          => pc' = "sleep" /\ ws' = "closed"]_vars

\* C12: no failure of a step of the supervisor (close, connect, sync,
\* receive, handling of an update) ends the supervisor task: in every
\* reachable state of a session that was set up the task is still running.
C12_SupervisorNeverEnds == pc # "dead"

\* the supervisor of an entry that was unloaded
Unloaded == ~registered /\ pc \in SupervisorPcs \cup {"dead"}

\* C13: once async_unload_entry has run, the supervisor makes no further
\* connect attempt: it takes the failure the close causes for a normal
\* disconnect and exits, so from the top of its loop it never goes on to
\* connect again.
C13_NoConnectAfterUnload ==
    [][Unloaded /\ pc = "loop" => pc' # "connect"]_vars

\* the steps of async_setup_entry's try block that failed
SetupFailures == {"not_connected", "sync_raised"}

\* C14: when the initial connect returns failure or the initial sync raises,
\* the setup ends as not ready (ConfigEntryNotReady): the session is not
\* registered and no supervisor task is started.
C14_FailedSetupNotReady ==
    Ops(trace) \cap SetupFailures # {}
        => pc = "not_ready" /\ ~registered /\ ~TaskRunning /\ ~first_run

\* the initial sync raised after the connect succeeded and after part of a
\* /rest/all body was stored
C14_Witness ==
    /\ pc = "not_ready"
    /\ "sync_raised" \in Ops(trace)
    /\ ws = "open"
    /\ DOMAIN cache # {}
    /\ ~registered

----------------------------------------------------------------------------
(* The primary exchange of the full-state sync.  It is the client library's *)
(* evok_full_state_sync, which evok_full_state_sync_with_rest awaits first; *)
(* what it does to the cache is taken from its contract: it enumerates      *)
(* devices and each record overwrites the cache entry of its address.       *)

PrimaryItems ==
    { Update("relay", "1_01", "value" :> S("0")),
      Update("relay", "1_02", "value" :> S("1")) }

PrimaryBodies == SeqsUpTo(PrimaryItems, MaxPrimary)

RECURSIVE StorePrimary(_, _)
StorePrimary(body, c) ==
    IF body = <<>> THEN c
    ELSE LET m == Head(body)
         IN  StorePrimary(Tail(body), CacheSet(c, m["dev"], m["circuit"], m))

Addresses(body) == { AddressOf(body[i]) : i \in DOMAIN body }

\* the initial sync's primary exchange, which may raise
SetupSyncPrimaryStores ==
    /\ pc = "setup_sync"
    /\ \E ok \in BOOLEAN, body \in PrimaryBodies :
          /\ pc' = AfterSetupStep(ok, "setup_rest")
          /\ trace' = IF ok THEN trace ELSE Append(trace, T("sync_raised"))
          /\ cache' = IF ok THEN StorePrimary(body, cache) ELSE cache
          /\ primary' = IF ok THEN Addresses(body) ELSE primary
    /\ UNCHANGED <<ws, first_run, reconnect_time, otherVars, data, sent>>
    /\ UNCHANGED <<registered, entityVars>>

\* the supervisor's primary exchange, which may raise
SyncPrimaryStores ==
    /\ pc = "sync"
    /\ \E ok \in BOOLEAN, body \in PrimaryBodies :
          /\ pc' = IF ok THEN "rest" ELSE "dead"
          /\ cache' = IF ok THEN StorePrimary(body, cache) ELSE cache
          /\ primary' = IF ok THEN Addresses(body) ELSE primary
    /\ UNCHANGED <<ws, first_run, reconnect_time, otherVars, data, sent, trace>>
    /\ UNCHANGED <<registered, entityVars>>

NextSync ==
    \/ SetupConnect
    \/ SetupSyncPrimaryStores
    \/ SetupSyncRest
    \/ LoopTop
    \/ Connect
    \/ Sleep
    \/ SyncPrimaryStores
    \/ SyncRest
    \/ ReceiveRaises
    \/ Receive

\* the connection manager with the records of the primary exchange
SpecSync == Init /\ [][NextSync]_vars

\* a sync has completed: the setup's, before the supervisor's first step, or
\* the supervisor's, before its first receive
SyncCompleted == pc \in {"loop", "receive"} /\ primary # {}

\* C15: after a full-state sync completes, evok_state_get returns a record
\* for every address of the primary exchange's response, whatever the
\* /rest/all fetch did, a complete failure included.
C15_PrimaryAddressesPresent ==
    SyncCompleted
        => \A a \in primary : evok_state_get(cache, S(a[1]), S(a[2])) # NoneItem

\* the supervisor's sync completed with both addresses in the primary
\* response and nothing stored by /rest/all for them
C15_Witness ==
    /\ pc = "receive"
    /\ Cardinality(primary) = 2
    /\ \A a \in primary : a \in DOMAIN cache /\ cache[a] \in PrimaryItems

----------------------------------------------------------------------------
(* The cache and the entities *)

\* C16: a cache key, once populated, stays: no step (an update ingested, a
\* sync after a reconnect, a disconnect, a light command) removes a key.
C16_KeysNeverRemoved == [][DOMAIN cache \subseteq DOMAIN cache']_vars

\* after a disconnect, with both addresses cached and one record written by
\* a light command
C16_Witness ==
    /\ pc = "connect"
    /\ LoopEnded
    /\ Cardinality(DOMAIN cache) = 2
    /\ \E k \in DOMAIN cache : cache[k] = LightRecord(TRUE)

----------------------------------------------------------------------------
(* Liveness of the supervisor *)

\* a connect attempt of the supervisor that succeeds
ConnectSucceeds == Connect /\ pc' = "sync"

\* the event loop keeps running the tasks that can take a step, and the
\* controller is reachable again and again: a connect attempt that is made
\* infinitely often succeeds infinitely often
LiveSpec == Spec /\ WF_vars(Next) /\ SF_vars(ConnectSucceeds)

\* C17: the supervisor has no terminal state: if connects eventually
\* succeed and the scheduling is fair, then whenever streaming has ended or a
\* connect attempt has failed the supervisor eventually streams again.
C17_StreamsAgain ==
    (pc = "sleep" \/ (pc = "loop" /\ LoopEnded)) ~> (pc = "receive")

----------------------------------------------------------------------------
(* Who writes the cache, who opens and closes the transport *)

\* the cache changes as a write of the full-state sync or of the receive
\* loop changes it, at the position where they run
SupervisorWrites ==
    \/ /\ IsRestStep
       /\ \E resp \in RestResponses :
             cache' = fetch_rest_all(cache, resp).cache
    \/ /\ pc = "receive"
       /\ \E d \in DataValues :
             cache' = HandleMessages(Messages(d), cache, <<>>).cache

\* C18: the cache is written only by the full-state sync (the initial one
\* and each re-sync) and by the receive loop; the entities (light, sensor,
\* binary sensor, cover) only read it.
C18_OnlySupervisorWrites == [][cache' # cache => SupervisorWrites]_vars

\* the supervisor's close at the top of its loop, or its connect
SupervisorOpensOrCloses ==
    \/ pc = "loop" /\ pc' = "connect"
    \/ pc = "connect" /\ pc' \in {"sync", "sleep"}

\* C19: only the supervisor task opens or closes the transport: every
\* evok_connect and evok_close of a session is a step of its supervisor.
C19_OnlySupervisorOpensCloses ==
    [][ws' # ws => SupervisorOpensOrCloses]_vars

\* C20: whatever the /rest/all fetch of the supervisor's sync meets, a
\* malformed body (no sequence of device records) included, fetch_rest_all
\* returns without raising and the supervisor goes on to the receive loop.
C20_RestFailureAbsorbed == [][pc = "rest" => pc' \in {"rest", "receive"}]_vars

----------------------------------------------------------------------------
(* The handling of one received value *)

\* the updates a received value delivers: the elements of a batch, or the
\* single update
Delivered(d) == IF d.isList THEN d.list ELSE <<d.single>>

WellFormedUpdate(m) == IsDict(m) /\ HasAddress(m)

\* the position of the first delivered value whose handling raises (a value
\* that is no dict), 0 when there is none
FirstRaising(ms) ==
    LET bad == { i \in DOMAIN ms : ~IsDict(ms[i]) }
    IN  IF bad = {} THEN 0 ELSE CHOOSE i \in bad : \A j \in bad : i <= j

\* c2 is c with the updates of good replayed in order: each address of good
\* holds its last update, every other key what it held
Replayed(good, c, c2) ==
    /\ DOMAIN c2 = DOMAIN c \cup { AddressOf(good[i]) : i \in DOMAIN good }
    /\ \A key \in DOMAIN c2 :
          LET idx == { i \in DOMAIN good : AddressOf(good[i]) = key }
          IN  IF idx = {} THEN c2[key] = c[key]
              ELSE c2[key] = good[CHOOSE i \in idx : \A j \in idx : j <= i]

\* C21: a message of n well-formed updates, a batch or a single update
\* (n = 1), gets n cache writes and n signals in message order, the i-th
\* signal keyed by the controller name, device type and circuit of the i-th
\* update and sent with that update written.
C21_BatchAndSingleAlike ==
    [][ IsReceiveStep =>
          LET ms == Delivered(data') IN
          (\A i \in DOMAIN ms : WellFormedUpdate(ms[i])) =>
             /\ Len(sent') = Len(ms)
             /\ \A i \in DOMAIN ms :
                   /\ sent'[i].signal = SignalOf(ms[i])
                   /\ sent'[i].sees = ms[i] ]_vars

\* a batch of two updates to different addresses has been handled
C21_Witness ==
    /\ pc = "receive"
    /\ data.isList
    /\ Len(data.list) = 2
    /\ \A i \in 1..2 : WellFormedUpdate(data.list[i])
    /\ AddressOf(data.list[1]) # AddressOf(data.list[2])
    /\ Len(sent) = 2

\* C22: updates are applied in the order they are delivered: after a
\* receive the cache is the cache before it with the delivered updates
\* replayed one after the other, so that each address holds the last
\* well-formed update delivered for it.
C22_DeliveryOrderReplay ==
    [][ IsReceiveStep =>
          LET ms == Delivered(data') IN
          (\A i \in DOMAIN ms : IsDict(ms[i])) =>
             Replayed(SelectSeq(ms, HasAddress), cache, cache') ]_vars

\* a batch of two different updates to one address has been handled: the
\* second is cached
C22_Witness ==
    /\ pc = "receive"
    /\ data.isList
    /\ Len(data.list) = 2
    /\ \A i \in 1..2 : WellFormedUpdate(data.list[i])
    /\ AddressOf(data.list[1]) = AddressOf(data.list[2])
    /\ data.list[1] # data.list[2]
    /\ cache[AddressOf(data.list[2])] = data.list[2]

\* C26: when the handling of the k-th value of a message raises, the writes
\* and signals of the updates before it stay, no later update of the message
\* is written or signalled, and the receive loop ends (the supervisor goes
\* back to the top of its loop, to reconnect).
C26_PrefixStaysOnError ==
    [][ IsReceiveStep =>
          LET ms == Delivered(data')
              k == FirstRaising(ms)
              good == SelectSeq(SubSeq(ms, 1, k - 1), HasAddress)
          IN  k # 0 =>
                /\ Replayed(good, cache, cache')
                /\ Len(sent') = Len(good)
                /\ \A i \in DOMAIN good : sent'[i].signal = SignalOf(good[i])
                /\ pc' = "loop"
                /\ trace'[Len(trace')].op = "error" ]_vars

\* the second value of a batch raised after the first was written and
\* signalled
C26_Witness ==
    /\ pc = "loop"
    /\ data.isList
    /\ Len(data.list) = 2
    /\ WellFormedUpdate(data.list[1])
    /\ ~IsDict(data.list[2])
    /\ Len(sent) = 1
    /\ cache[AddressOf(data.list[1])] = data.list[1]
    /\ trace[Len(trace)].op = "error"

----------------------------------------------------------------------------
(* The order of connect, sync and receive *)

\* C23: after a successful connect of the supervisor the full-state sync
\* (primary exchange, then /rest/all) has run to its end before the first
\* receive: the receive loop is entered from the end of the /rest/all fetch
\* only, the fetch from the primary exchange only, and the primary exchange
\* from the connect only.
C23_SyncBeforeReceive ==
    [][ /\ (pc' = "receive" /\ pc # "receive") => pc = "rest"
        /\ (pc' = "rest" /\ pc # "rest") => pc = "sync"
        /\ (pc' = "sync" /\ pc # "sync") => pc = "connect" ]_vars

\* the supervisor stands before its first receive on a connection, with the
\* records the sync stored
C23_Witness ==
    /\ pc = "receive"
    /\ trace = << T("connect_ok"), T("streaming") >>
    /\ sent = <<>>
    /\ DOMAIN cache # {}

\* C25: the transport is never connected twice without a close in between:
\* an evok_connect of the supervisor never finds the transport open.
C25_NoConnectWhileOpen ==
    [][ (pc = "connect" /\ pc' # "connect") => ws # "open" ]_vars

----------------------------------------------------------------------------
(* The calls on a light *)

\* the evok_send of the i-th call in flight ends in this step
SendEndsAt(i) ==
    /\ i \in DOMAIN light_calls
    /\ light_calls[i].at = "send"
    /\ light_calls' = SubSeq(light_calls, 1, i - 1)
                         \o SubSeq(light_calls, i + 1, Len(light_calls))

\* C28: when the evok_send of a light's async_turn_on or async_turn_off
\* raises ConnectionClosedError (the call logs its warning), the call leaves
\* the light's _state and _brightness and the cache as they are, and it
\* returns to its caller instead of raising.
C28_ClosedSendChangesNothing ==
    [][ \A i \in DOMAIN light_calls :
          SendEndsAt(i) /\ light_result' # "returned" =>
             \/ light_result' = "raised"
             \/ /\ light_result' = "warned"
                /\ cache' = cache
                /\ light_on' = light_on
                /\ brightness' = brightness ]_vars

\* a call on a light has just ended with the warning, the transport open or
\* not, and the light's cache entry is still a record the controller sent
C28_Witness ==
    /\ light_result = "warned"
    /\ light_calls = <<>>
    /\ \E key \in DOMAIN light_on :
          /\ last_sent[key] = "1"
          /\ ~light_on[key]
          /\ cache[key] # LightRecord(TRUE)

\* C29: the calls on one light are serialized by its lock: at most one of
\* them is at its evok_send, and when a call ends without error it writes
\* _state and the cache entry for the value it sent, which is the value
\* last sent on that light; so when it leaves no call in flight on the
\* light, state and cache correspond to the command sent last.
C29_LockSerializesCalls ==
    [][ \A i \in DOMAIN light_calls :
          SendEndsAt(i) =>
             LET call == light_calls[i] IN
             /\ \A j \in DOMAIN light_calls :
                   (j # i /\ light_calls[j].key = call.key)
                      => light_calls[j].at = "lock"
             /\ last_sent[call.key] = SendValue(call.on)
             /\ light_result' = "returned" =>
                   /\ light_on'[call.key] = (last_sent[call.key] = "1")
                   /\ cache'[call.key] = LightRecord(last_sent[call.key] = "1") ]_vars

\* a turn_off was called on a light whose turn_on was at its evok_send: it
\* waited for the lock, the turn_on has ended without error and written
\* "on", and now the turn_off is at its own evok_send
C29_Witness ==
    \E key \in DOMAIN light_on :
       /\ light_calls = << [key |-> key, on |-> FALSE, at |-> "send"] >>
       /\ light_result = "returned"
       /\ last_sent[key] = "0"
       /\ light_on[key]
       /\ cache[key] = LightRecord(TRUE)

----------------------------------------------------------------------------
(* The cover *)

\* the relays of the one cover cover.async_setup_entry creates
port_up == "1_01"
port_down == "1_02"

OPER_STATE_IDLE == "idle"
OPER_STATE_CLOSING == "closing"
OPER_STATE_OPENING == "opening"

\* _set_relay_state: evok_send("relay", port, "1" if state else "0")
set_relay_state(commands, port, state) ==
    [commands EXCEPT ![port] = IF state THEN "on" ELSE "off"]

\* the relay async_open_cover / async_close_cover switches on and the state
\* it sets afterwards
MovePort(op) == IF op = "open" THEN port_up ELSE port_down
MoveState(op) == IF op = "open" THEN OPER_STATE_OPENING ELSE OPER_STATE_CLOSING

\* async_open_cover stops the cover first when it is closing,
\* async_close_cover when it is opening; async_stop_cover always stops
StopsFirst(op, state) ==
    \/ op = "stop"
    \/ op = "open" /\ state = OPER_STATE_CLOSING
    \/ op = "close" /\ state = OPER_STATE_OPENING

\* a call of async_open_cover, async_close_cover or async_stop_cover
\* starts and runs to its first evok_send, where it is suspended
CoverCallStarts(op) ==
    /\ registered
    /\ Len(cover_calls) < MaxCoverCalls
    /\ IF StopsFirst(op, cover_state)
       THEN /\ relay_sent' = set_relay_state(relay_sent, port_up, FALSE)
            /\ cover_calls' = Append(cover_calls, [op |-> op, at |-> "stop_up"])
       ELSE /\ relay_sent' = set_relay_state(relay_sent, MovePort(op), TRUE)
            /\ cover_calls' = Append(cover_calls, [op |-> op, at |-> "move"])
    /\ UNCHANGED <<coreVars, entityVars, callVars, cover_state, sessionVars>>

async_open_cover == CoverCallStarts("open")

async_close_cover == CoverCallStarts("close")

async_stop_cover == CoverCallStarts("stop")

\* cover_calls without its i-th call
CallEnded(calls, i) == SubSeq(calls, 1, i - 1) \o SubSeq(calls, i + 1, Len(calls))

\* the evok_send a call is suspended at returns and the call runs on to its
\* next evok_send or to its end
CoverSendReturns ==
    \E i \in DOMAIN cover_calls :
       LET call == cover_calls[i] IN
       /\ ws = "open"
       /\ CASE call.at = "stop_up" ->
                 /\ relay_sent' = set_relay_state(relay_sent, port_down, FALSE)
                 /\ cover_calls' = [cover_calls EXCEPT ![i].at = "stop_down"]
                 /\ UNCHANGED cover_state
            [] call.at = "stop_down" /\ call.op = "stop" ->
                 /\ cover_state' = OPER_STATE_IDLE
                 /\ cover_calls' = CallEnded(cover_calls, i)
                 /\ UNCHANGED relay_sent
            [] call.at = "stop_down" /\ call.op # "stop" ->
                 /\ cover_state' = OPER_STATE_IDLE
                 /\ relay_sent' = set_relay_state(relay_sent, MovePort(call.op), TRUE)
                 /\ cover_calls' = [cover_calls EXCEPT ![i].at = "move"]
            [] call.at = "move" ->
                 /\ cover_state' = MoveState(call.op)
                 /\ cover_calls' = CallEnded(cover_calls, i)
                 /\ UNCHANGED relay_sent
       /\ UNCHANGED <<coreVars, entityVars, callVars, sessionVars>>

\* the evok_send a call is suspended at raises: nothing in cover.py catches
\* it, the call ends there
CoverSendRaises ==
    \E i \in DOMAIN cover_calls :
       /\ cover_calls' = CallEnded(cover_calls, i)
       /\ UNCHANGED <<coreVars, entityVars, callVars, cover_state, relay_sent,
                      sessionVars>>

\* the setup of the session and the calls on its cover
NextCover ==
    \/ SetupConnect
    \/ SetupSyncPrimary
    \/ SetupSyncRest
    \/ async_open_cover
    \/ async_close_cover
    \/ async_stop_cover
    \/ CoverSendReturns
    \/ CoverSendRaises

SpecCover == Init /\ [][NextCover]_vars

\* C27: whatever the interleaving of the cover's open, close and stop calls,
\* the up relay and the down relay are never both commanded on: when the
\* last command sent to one of them is "on", the last command sent to the
\* other is "off" or none was sent.
C27_NeverBothRelaysOn ==
    ~(relay_sent[port_up] = "on" /\ relay_sent[port_down] = "on")

----------------------------------------------------------------------------
(* Several controllers: the config entries and their sessions *)

\* the controllers on the network
Hosts == {"10.0.0.1", "10.0.0.2"}

\* the name the discovery steps give a controller that announces none
DiscoveredName(host) == "UniPi_" \o host

\* the names a user or a YAML entry may give a controller
EnteredNames == {"hall"} \cup { DiscoveredName(h) : h \in Hosts }

\* the name a controller announces over zeroconf, "None" when it has none
AnnouncedNames == {"None", "hall"}

\* unipi_neuron_entries: the names of the existing entries
unipi_neuron_entries(es) == { es[i].name : i \in DOMAIN es }

\* async_create_entry
CreateEntry(name, host, unique_id) ==
    /\ Len(entries) < MaxEntries
    /\ entries' = Append(entries,
          [name |-> name, ip_address |-> host, unique_id |-> unique_id])
    /\ UNCHANGED <<coreVars, entityVars, callVars, coverVars, session_cache,
                   observers, notified, ingested>>

\* async_step_user with a filled form: a name that exists is refused
async_step_user ==
    \E name \in EnteredNames, host \in Hosts :
       /\ name \notin unipi_neuron_entries(entries)
       /\ CreateEntry(name, host, "None")

\* async_step_import: a name that exists aborts the flow
async_step_import ==
    \E name \in EnteredNames, host \in Hosts :
       /\ ~(name \in unipi_neuron_entries(entries))
       /\ CreateEntry(name, host, "None")

\* _abort_if_unique_id_configured
UniqueIdConfigured(es, unique_id) ==
    \E i \in DOMAIN es : es[i].unique_id = unique_id

\* async_step_zeroconf, then async_step_discovery_confirm: the unique id is
\* the host; the name is the announced one, or the default
async_step_zeroconf ==
    \E host \in Hosts, announced \in AnnouncedNames :
       /\ ~UniqueIdConfigured(entries, host)
       /\ CreateEntry(IF announced = "None" THEN DiscoveredName(host)
                                             ELSE announced, host, host)

\* async_step_ssdp, then async_step_discovery_confirm
async_step_ssdp ==
    \E host \in Hosts :
       /\ ~UniqueIdConfigured(entries, host)
       /\ CreateEntry(DiscoveredName(host), host, host)

\* the updates a controller sends in this part of the model
SessionUpdates ==
    { ("dev" :> S("relay") @@ "circuit" :> S(c) @@ "value" :> S(v)) :
         c \in {"1_01"}, v \in {"0", "1"} }

\* async_setup_entry of the i-th entry with connect and sync succeeding:
\* a session with a cache of its own, named after the entry; then each
\* entity the platforms create subscribes to the signal of its address
session_setup(i) ==
    /\ i \notin DOMAIN session_cache
    /\ \E m \in SessionUpdates :
          LET c == CacheSet(<<>>, m["dev"], m["circuit"], m) IN
          /\ session_cache' = [j \in DOMAIN session_cache \cup {i} |->
                                  IF j = i THEN c ELSE session_cache[j]]
          /\ observers' = observers \cup
                { [entry |-> i, signal |-> <<entries[i].name, a[1], a[2]>>] :
                     a \in DOMAIN c }
    /\ UNCHANGED <<coreVars, entityVars, callVars, coverVars, entries,
                   notified, ingested>>

SessionSetup == \E i \in DOMAIN entries : session_setup(i)

\* the receive loop of the i-th entry's session handles the update m: the
\* write into the session's cache and the signal, which the dispatcher
\* hands to every entity subscribed to it
session_ingest(i, m) ==
    LET c == CacheSet(session_cache[i], m["dev"], m["circuit"], m)
        note == evok_update_dispatch_send(c, entries[i].name, m["dev"],
                                          m["circuit"])
    IN  /\ session_cache' = [session_cache EXCEPT ![i] = c]
        /\ notified' = { o \in observers : o.signal = note.signal }
        /\ ingested' = i
        /\ UNCHANGED <<coreVars, entityVars, callVars, coverVars, entries,
                       observers>>

SessionIngests ==
    \E i \in DOMAIN session_cache, m \in SessionUpdates : session_ingest(i, m)

NextSessions ==
    \/ async_step_user
    \/ async_step_import
    \/ async_step_zeroconf
    \/ async_step_ssdp
    \/ SessionSetup
    \/ SessionIngests

SpecSessions == Init /\ [][NextSessions]_vars

\* a session has handled an update in this step
IsIngestStep ==
    /\ entries' = entries
    /\ observers' = observers
    /\ <<session_cache, notified, ingested>>' # <<session_cache, notified, ingested>>

\* the controller of the i-th entry
ControllerOf(i) == entries[i].ip_address

\* C24: the sessions share no state: an update one session handles leaves
\* the cache of every other session as it is, and the signal it sends calls
\* no entity that is subscribed to an address of another controller.
C24_SessionsShareNothing ==
    [][ IsIngestStep =>
          /\ \A j \in DOMAIN session_cache :
                j # ingested' => session_cache'[j] = session_cache[j]
          /\ \A o \in notified' :
                ControllerOf(o.entry) = ControllerOf(ingested') ]_vars

============================================================================
